---- MODULE Spec2Model ----
(***************************************************************************)
(* Model of the Fordefi custodial-signing client                           *)
(* (src/src/fordefi/client.ts) and of the signing adapter fordefiSigner    *)
(* (src/unnamed/part_004, lines 359-434).                                  *)
(*                                                                         *)
(* Scheduling is that of one JavaScript event loop: an async function runs *)
(* without interruption up to the network call it awaits, and the          *)
(* continuation that runs when the response arrives (catch handlers, the   *)
(* callers' continuations, Promise.all's bookkeeping included) is one      *)
(* atomic step.  The remote service is the environment: each response is   *)
(* drawn from a small set of the answers the declared types allow.         *)
(*                                                                         *)
(* The specifications share the state: Spec (one batch call of the         *)
(* signer), SignerSpec (one signer called several times) and FairSpec (the *)
(* same, every request ending), ClientSpec (one client used by concurrent  *)
(* callers), ClockSpec (one caller while the clock advances), SignSpec     *)
(* (createSignature on its own), MintSpec (createBackedMintInstructions of *)
(* src/unnamed/part_004) and AuthoritySpec (getUpdateAuthorityInstructions *)
(* of src/unnamed/part_001 with src/src/token/setAuthority.ts).  An HMAC   *)
(* is the value that names its key and its message.                        *)
(*                                                                         *)
(* Strings whose content a claim inspects (JSON text, error messages) are  *)
(* sequences of tokens, so that "the message contains the status" is a     *)
(* statement about an infix of the sequence.                               *)
(***************************************************************************)
EXTENDS Integers, Sequences, FiniteSets, TLC

\* ------------------------------------------------------------- bounds
\* Largest batch handed to signAndSendTransactions.
MaxTx == 2
\* Latest reading of the clock.
MaxClock == 3
\* Longest body, in bytes, handed to createSignature on its own.
MaxBodyLen == 2
\* Concurrent direct callers of one FordefiClient.
NCallers == 2
\* Calls of public operations made on one FordefiClient by direct callers.
MaxCalls == 4
\* Calls of signAndSendTransactions made on one signer, one after the other.
MaxBatches == 3
\* Largest batch handed to a signer that is called again and again.
MaxBatchTx == 1
\* Most instructions the SDK returns to pre-initialize one mint extension.
MaxPreInit == 1
\* Addresses handed to the instruction builders.
NAddresses == 2

\* ------------------------------------------------------ program constants
\* A Solana signature is 64 bytes.
SigLen == 64
\* The statuses [HttpOkLow, HttpOkHigh) are successes.
HttpOkLow == 200
HttpOkHigh == 300

\* The discriminator of SetAuthority, the first byte of its data.
SetAuthorityDiscriminator == 6
\* newAuthorityOption = Some.
SomeOption == 1
\* An address is 32 bytes.
AddressLen == 32

\* ------------------------------------------------------ JavaScript values
NULL == "null"
UNDEF == "undefined"

\* JavaScript truthiness of a string-or-null value (if (x), !x, x ? a : b).
Truthy(v) == v \notin {NULL, UNDEF, ""}

\* JSON values: a tagged record.  An object is a sequence of <<key, value>>.
JUndef == [t |-> "undef", s |-> "", o |-> <<>>]
JStr(s) == [t |-> "str", s |-> s, o |-> <<>>]
JNum(n) == [t |-> "num", s |-> ToString(n), o |-> <<>>]
JObj(pairs) == [t |-> "obj", s |-> "", o |-> pairs]
\* A string or undefined, as a member of an object literal.
JOpt(v) == IF v = UNDEF THEN JUndef ELSE JStr(v)

Quote(s) == "\"" \o s \o "\""

\* JSON.stringify of a scalar: a quoted string, a number's digits.
JScalarText(v) == IF v.t = "str" THEN <<Quote(v.s)>> ELSE <<v.s>>

\* The members of an object, from the k-th on, each preceded by a comma unless
\* it is the first one written; members whose value is undefined are dropped.
RECURSIVE JMembers(_, _, _)
JMembers(pairs, k, first) ==
    IF k > Len(pairs) THEN <<>>
    ELSE IF pairs[k][2].t = "undef" THEN JMembers(pairs, k + 1, first)
    ELSE (IF first THEN <<>> ELSE <<",">>)
         \o <<Quote(pairs[k][1]), ":">> \o JScalarText(pairs[k][2])
         \o JMembers(pairs, k + 1, FALSE)

\* JSON.stringify(v) as a token sequence; of undefined it is undefined, which a
\* template literal prints as the word.
JSONstringify(v) ==
    IF v.t = "undef" THEN <<UNDEF>>
    ELSE IF v.t = "obj" THEN <<"{">> \o JMembers(v.o, 1, TRUE) \o <<"}">>
    ELSE JScalarText(v)

\* sub occurs in s as a contiguous run of tokens.
IsInfix(sub, s) ==
    \E i \in 0..(Len(s) - Len(sub)) :
        \A j \in 1..Len(sub) : s[i + j] = sub[j]

\* The string a sequence of tokens spells.
RECURSIVE Text(_)
Text(tokens) ==
    IF tokens = <<>> THEN "" ELSE Head(tokens) \o Text(Tail(tokens))

\* ------------------------------------------- FordefiClient.createSignature
\* createHmac(algorithm, key).update(message): the code of `message` under
\* `key`, as the value that names what it was computed from.
Hmac(algorithm, key, message) ==
    [algorithm |-> algorithm, key |-> key, message |-> message]
\* .digest("hex"): the hexadecimal text of a code.
HexDigest(mac) == [encoding |-> "hex", of |-> mac]
NoHmac == HexDigest(Hmac("", "", ""))

\* createSignature without the timestamp in the signed message.
createSignature_BodyOnly(apiSecret, now, body) ==
    [signature |-> HexDigest(Hmac("sha256", apiSecret, body)),
     timestamp |-> now]

\* createSignature(body) of a client whose secret is apiSecret, called when
\* Date.now() is `now`: the message is `${timestamp}${body}`.
createSignature(apiSecret, now, body) ==
    LET timestamp == now
        message == ToString(timestamp) \o body
    IN  [signature |-> HexDigest(Hmac("sha256", apiSecret, message)),
         timestamp |-> timestamp]

\* ------------------------------------------------------------- HTTP calls
\* A call handed to axios: the method, the path, the headers set (`names` is
\* the set of their names) and the data, if any is passed.
HttpCall(method, path, names, authorization, signed, hasBody, body) ==
    [method |-> method, path |-> path, names |-> names,
     Authorization |-> authorization,
     xSignature |-> signed.signature, xTimestamp |-> signed.timestamp,
     hasBody |-> hasBody, body |-> body]
Unsigned == [signature |-> NoHmac, timestamp |-> 0]
NoHttpCall == HttpCall("", "", {}, "", Unsigned, FALSE, <<>>)

\* ---------------------------------------------------------------- errors
\* What an HTTP call ends with: a response (any status), or no response at all.
Reply(kind, status, hasData, data, text) ==
    [kind |-> kind, status |-> status, hasData |-> hasData, data |-> data,
     text |-> text]
NoReply == Reply("pending", 0, FALSE, JUndef, "")

\* new Error(message): an error object without a response property.
NewError(message) == [message |-> message, response |-> NoReply]
\* What axios throws: with the response it refused, or with none.
AxiosError(reply) ==
    [message |-> <<reply.text>>,
     response |-> IF reply.kind = "response" THEN reply ELSE NoReply]
NoError == NewError(<<>>)

\* Outcome of a call: a returned value or a thrown error.
Return(v) == [tag |-> "return", value |-> v, error |-> NoError]
Throw(e) == [tag |-> "throw", value |-> UNDEF, error |-> e]
Pending == [tag |-> "pending", value |-> UNDEF, error |-> NoError]

\* The repository declares no error classes: every error is a plain Error and
\* its kind is what its message says first.
ErrorKind(e) ==
    IF e.message = <<>> THEN "none"
    ELSE CASE e.message[1] = "HTTP error occurred: status = " -> "HttpError"
           [] e.message[1] = "Network error occurred: " -> "NetworkError"
           [] e.message[1] \in {"Failed to authenticate with Fordefi",
                               "No access token received from Fordefi"}
                -> "AuthenticationError"
           [] e.message[1] \in {"No signature returned for transaction ",
                               "Invalid signature length: "}
                -> "ValidationError"
           [] OTHER -> "Error"

\* ---------------------------------------------------- FordefiClient.request
\* response.status < 200 || response.status >= 300
IsHttpFailure(status) == status < HttpOkLow \/ status >= HttpOkHigh

\* HttpErrorMessage without the details line.
HttpErrorMessage_NoDetails(status, data) ==
    <<"HTTP error occurred: status = ", ToString(status)>>

\* `HTTP error occurred: status = ${status}` + `\nError details: ${JSON.stringify(data)}`
HttpErrorMessage(status, data) ==
    <<"HTTP error occurred: status = ", ToString(status), "\nError details: ">>
    \o JSONstringify(data)

\* The catch block of request(): an error that carries a response is reported
\* as an HTTP error, any other as a network error around its message.
RequestCatch(error) ==
    IF error.response.kind = "response"
    THEN Throw(NewError(HttpErrorMessage(error.response.status,
                                         error.response.data)))
    ELSE Throw(NewError(<<"Network error occurred: ">> \o error.message))

\* The error first thrown inside the try block of request() when its HTTP call
\* ended with `reply`: what axios throws for a missing response, the error made
\* for a failure status, none for a success.
RequestRaised(reply) ==
    IF reply.kind # "response" THEN AxiosError(reply)
    ELSE IF IsHttpFailure(reply.status)
         THEN NewError(HttpErrorMessage(reply.status, reply.data))
         ELSE NoError

\* RequestResume without the test of the status.
RequestResume_NoStatusCheck(reply) ==
    IF reply.kind # "response" THEN RequestCatch(AxiosError(reply))
    ELSE Return(reply.data)

\* request() from the point where its HTTP call ended with `reply`.  The call is
\* made with validateStatus: () => true, so every response is delivered and only
\* a missing response throws; the throw for a failure status is inside the try
\* and is caught by the same catch block.
RequestResume(reply) ==
    IF reply.kind # "response" THEN RequestCatch(AxiosError(reply))
    ELSE IF IsHttpFailure(reply.status)
         THEN RequestCatch(NewError(HttpErrorMessage(reply.status, reply.data)))
         ELSE Return(reply.data)

\* RequestCall signing before the body is serialized.
RequestCall_SignsUnserialized(method, path, requestBody, accessToken, apiSecret, now) ==
    IF method = "GET"
    THEN HttpCall(method, path, {"Authorization", "Content-Type"},
                  "Bearer " \o accessToken, Unsigned, FALSE, <<>>)
    ELSE HttpCall(method, path,
                  {"Authorization", "x-signature", "x-timestamp",
                   "Content-Type"},
                  "Bearer " \o accessToken,
                  createSignature(apiSecret, now, ""), TRUE, requestBody)
\* RequestCall signing every call, the GET included.
RequestCall_SignsGet(method, path, requestBody, accessToken, apiSecret, now) ==
    HttpCall(method, path,
             {"Authorization", "x-signature", "x-timestamp", "Content-Type"},
             "Bearer " \o accessToken,
             createSignature(apiSecret, now, Text(requestBody)),
             method # "GET", IF method = "GET" THEN <<>> ELSE requestBody)

\* The HTTP call request() makes once authenticate() has returned accessToken:
\* a GET without data, or a POST of requestBody with its signature.
RequestCall(method, path, requestBody, accessToken, apiSecret, now) ==
    IF method = "GET"
    THEN HttpCall(method, path, {"Authorization", "Content-Type"},
                  "Bearer " \o accessToken, Unsigned, FALSE, <<>>)
    ELSE HttpCall(method, path,
                  {"Authorization", "x-signature", "x-timestamp",
                   "Content-Type"},
                  "Bearer " \o accessToken,
                  createSignature(apiSecret, now, Text(requestBody)),
                  TRUE, requestBody)

\* request() makes one HTTP call for one invocation: whatever that call ended
\* with, it returns or throws and awaits nothing more, and no public operation
\* calls it a second time.
AwaitsAgain_UntilAnswered(op, reply) == reply.kind # "response"
AwaitsAgain(op, reply) == FALSE

\* ------------------------------------------------ FordefiClient.authenticate
\* The POST to /auth: the body {apiKey}, serialized, and its signature; the
\* content type is the default of the client's axios instance.
AuthenticateCall(apiKey, apiSecret, now) ==
    LET requestBody == JSONstringify(JObj(<< <<"apiKey", JStr(apiKey)>> >>))
    IN  HttpCall("POST", "/auth",
                 {"Content-Type", "x-signature", "x-timestamp"}, "",
                 createSignature(apiSecret, now, Text(requestBody)),
                 TRUE, requestBody)

\* POST /auth goes through the axios instance, whose default validateStatus
\* rejects every status outside [200,300).
AuthFailed == Throw(NewError(<<"Failed to authenticate with Fordefi">>))

\* The error first thrown inside the try block of authenticate() when POST /auth
\* ended with `reply`: what axios throws for a missing response or a failure
\* status, a TypeError for a response without data, the error made for a
\* response without a token, none otherwise.
AuthenticateRaised(reply) ==
    IF reply.kind # "response" \/ IsHttpFailure(reply.status)
    THEN AxiosError(reply)
    ELSE IF ~reply.hasData
         THEN NewError(<<"Cannot read properties of undefined">>)
         ELSE IF ~Truthy(reply.data.accessToken)
              THEN NewError(<<"No access token received from Fordefi">>)
              ELSE NoError

\* AuthenticateResume without the test of the token received.
AuthenticateResume_NoTokenCheck(reply, accessToken) ==
    IF reply.kind = "response" /\ ~IsHttpFailure(reply.status) /\ reply.hasData
    THEN [out |-> Return(reply.data.accessToken),
          accessToken |-> reply.data.accessToken]
    ELSE [out |-> AuthFailed, accessToken |-> accessToken]

\* authenticate() from the point where POST /auth ended with `reply`, as
\* [out, accessToken]: the outcome and the value of this.accessToken after it.
\* The field is assigned before it is tested, so a response without a token
\* stores undefined.
AuthenticateResume(reply, accessToken) ==
    IF reply.kind = "response" /\ ~IsHttpFailure(reply.status) /\ reply.hasData
    THEN IF Truthy(reply.data.accessToken)
         THEN [out |-> Return(reply.data.accessToken),
               accessToken |-> reply.data.accessToken]
         ELSE [out |-> AuthFailed, accessToken |-> reply.data.accessToken]
    ELSE [out |-> AuthFailed, accessToken |-> accessToken]

\* ------------------------------------------------------- public operations
\* Buffer.from(bytes).toString("base64"): the text that encodes `bytes`.
Base64Encode(bytes) == "base64(" \o bytes \o ")"
\* Buffer.from(text, "base64") of a signature the service returned: the bytes
\* it encodes (their identity and their number).
Base64Decode(sig) == [id |-> sig.id, length |-> sig.length]

\* The body createAndWaitTransaction posts: txRequest spread with requestOptions.
CreateAndWaitBody(vaultId, transaction, chain, options) ==
    JObj(<< <<"type", JStr("solana_transaction")>>,
            <<"vault_id", JStr(vaultId)>>,
            <<"transaction", JStr(Base64Encode(transaction))>>,
            <<"chain", JStr(chain)>>,
            <<"idempotence_id", JOpt(options.idempotenceId)>>,
            <<"note", JOpt(options.note)>>,
            <<"sign_mode", JOpt(options.signMode)>>,
            <<"push_mode", JOpt(options.pushMode)>> >>
         \o (IF options.timeout # 0
             THEN << <<"timeout", JNum(options.timeout)>> >> ELSE <<>>))

\* The body signTransaction posts.
SignTransactionBody(transaction) ==
    JObj(<< <<"transaction", JStr(Base64Encode(transaction))>>,
            <<"network", JStr("solana")>> >>)

\* What each public operation makes of request()'s outcome: every one rethrows
\* the error it catches; the two reads return one field of the data, and
\* signTransaction the bytes of the signed transaction.
OperationResume(op, out) ==
    IF out.tag = "throw" THEN out
    ELSE CASE op = "createAndWaitTransaction" -> out
           [] op = "getWalletAddress" -> Return(out.value.address)
           [] op = "getTransactionStatus" -> Return(out.value.status)
           [] op = "signTransaction" ->
                Return(Base64Decode(out.value.signedTransaction))

\* ------------------------------------- fordefiSigner.signAndSendTransactions
\* MemberIdempotenceId without the index: every member gets the base key.
MemberIdempotenceId_NoIndex(idempotenceId, index) ==
    IF Truthy(idempotenceId) THEN idempotenceId ELSE UNDEF

\* options.idempotenceId ? `${options.idempotenceId}-${index}` : undefined
MemberIdempotenceId(idempotenceId, index) ==
    IF Truthy(idempotenceId) THEN idempotenceId \o "-" \o ToString(index)
    ELSE UNDEF

\* MemberValidate without the test of the decoded length.
MemberValidate_NoLengthCheck(index, response) ==
    IF ~response.signatures.present \/ Len(response.signatures.list) = 0
    THEN Throw(NewError(<<"No signature returned for transaction ",
                          ToString(index)>>))
    ELSE Return(Base64Decode(response.signatures.list[1]))

\* The map callback from the point where createAndWaitTransaction returned
\* `response`.
MemberValidate(index, response) ==
    IF ~response.signatures.present \/ Len(response.signatures.list) = 0
    THEN Throw(NewError(<<"No signature returned for transaction ",
                          ToString(index)>>))
    ELSE LET signatureBuffer == Base64Decode(response.signatures.list[1])
         IN  IF signatureBuffer.length # SigLen
             THEN Throw(NewError(<<"Invalid signature length: ",
                                   ToString(signatureBuffer.length),
                                   ", expected 64 bytes">>))
             ELSE Return(signatureBuffer)

\* Promise.all over the members' promises, as the record
\* [status, values, remaining, error, by]: it fulfils with the values in input
\* order once every member has fulfilled, and rejects with the error of the
\* first member that rejects; a settled promise never changes.
NoSignature == [id |-> "", length |-> 0]
\* PromiseAllStart waiting for a member to settle, also when there is none.
PromiseAllStart_WaitsForMember(n) ==
    [status |-> "pending",
     values |-> [i \in 1..n |-> NoSignature],
     remaining |-> n, error |-> NoError, by |-> -1]
PromiseAllStart(n) ==
    [status |-> IF n = 0 THEN "fulfilled" ELSE "pending",
     values |-> [i \in 1..n |-> NoSignature],
     remaining |-> n, error |-> NoError, by |-> -1]
\* PromiseAllSettle collecting the values in the order the members fulfil.
PromiseAllSettle_CompletionOrder(promise, index, out) ==
    IF out.tag = "throw"
    THEN IF promise.status = "pending"
         THEN [promise EXCEPT !.status = "rejected", !.error = out.error,
                          !.by = index]
         ELSE promise
    ELSE LET k == Len(promise.values) - promise.remaining + 1
             values == [promise.values EXCEPT ![k] = out.value]
         IN  [promise EXCEPT !.values = values,
                         !.remaining = promise.remaining - 1,
                         !.status = IF promise.status = "pending"
                                       /\ promise.remaining = 1
                                    THEN "fulfilled" ELSE promise.status]
\* PromiseAllSettle waiting for every member and fulfilling whatever they did.
PromiseAllSettle_Settled(promise, index, out) ==
    LET values == IF out.tag = "throw" THEN promise.values
                  ELSE [promise.values EXCEPT ![index + 1] = out.value]
    IN  [promise EXCEPT !.values = values,
                    !.remaining = promise.remaining - 1,
                    !.status = IF promise.remaining = 1 THEN "fulfilled"
                               ELSE promise.status]
\* PromiseAllSettle taking no note of a member that failed.
PromiseAllSettle_IgnoresFailure(promise, index, out) ==
    IF out.tag = "throw"
    THEN promise
    ELSE LET values == [promise.values EXCEPT ![index + 1] = out.value]
         IN  [promise EXCEPT !.values = values,
                         !.remaining = promise.remaining - 1,
                         !.status = IF promise.status = "pending"
                                       /\ promise.remaining = 1
                                    THEN "fulfilled" ELSE promise.status]
\* PromiseAllSettle rejecting with the error of the member that failed last.
PromiseAllSettle_LastError(promise, index, out) ==
    IF out.tag = "throw"
    THEN [promise EXCEPT !.status = "rejected", !.error = out.error,
                     !.by = index]
    ELSE LET values == [promise.values EXCEPT ![index + 1] = out.value]
         IN  [promise EXCEPT !.values = values,
                         !.remaining = promise.remaining - 1,
                         !.status = IF promise.status = "pending"
                                       /\ promise.remaining = 1
                                    THEN "fulfilled" ELSE promise.status]
\* Promise.all taking note that the member at `index` settled with `out`.
PromiseAllSettle(promise, index, out) ==
    IF out.tag = "throw"
    THEN IF promise.status = "pending"
         THEN [promise EXCEPT !.status = "rejected", !.error = out.error,
                          !.by = index]
         ELSE promise
    ELSE LET values == [promise.values EXCEPT ![index + 1] = out.value]
         IN  [promise EXCEPT !.values = values,
                         !.remaining = promise.remaining - 1,
                         !.status = IF promise.status = "pending"
                                       /\ promise.remaining = 1
                                    THEN "fulfilled" ELSE promise.status]
\* What the caller of signAndSendTransactions holds once the call has settled.
BatchResult(promise) ==
    IF promise.status = "fulfilled" THEN promise.values ELSE <<>>

\* ------------------------------------------- createBackedMintInstructions
\* An address is a positive number; 0 is a string that is no address.
NoAddress == 0
IsAddress(a) == a >= 1
\* An instruction of the mint's creation, by what the ordering rests on: its
\* kind, the extension it belongs to, the address that must sign it and the
\* authority of the mint that address signs as, and, for SetAuthority, the
\* authority handed over and its new holder.
Instruction(kind, ext, signer, signsAs, authorityType, newAuthority) ==
    [kind |-> kind, extension |-> ext, signer |-> signer, signsAs |-> signsAs,
     authorityType |-> authorityType, newAuthority |-> newAuthority]

\* getCreateMintInstructions: the account's creation, paid by the payer, and
\* InitializeMint, which makes the payer the mint authority.
getCreateMintInstructions(payer, mint) ==
    <<Instruction("CreateAccount", "", payer, "", "", NoAddress),
      Instruction("InitializeMint", "", NoAddress, "", "MintTokens", payer)>>

\* extensionsList, in its order.
ExtensionsList ==
    <<"MetadataPointer", "TokenMetadata", "PermanentDelegate",
      "DefaultAccountState", "ScaledUiAmountConfig", "PausableConfig",
      "ConfidentialTransferMint", "TransferHook">>
\* getPreInitializeInstructionsForMintExtensions(mint, [ext]) is the SDK's: the
\* model takes the number of instructions it returns for an extension as given.
PreInitializeInstructions(ext, count) ==
    [k \in 1..count |-> Instruction("PreInitialize", ext, NoAddress, "", "",
                                     NoAddress)]
\* extensionsList.flatMap over the first `n` extensions, pre[k] instructions
\* being returned for the k-th.
RECURSIVE FlatMapPreInitialize(_, _)
FlatMapPreInitialize(n, pre) ==
    IF n = 0 THEN <<>>
    ELSE FlatMapPreInitialize(n - 1, pre)
            \o PreInitializeInstructions(ExtensionsList[n], pre[n])

\* createBackedMintInstructions handing the mint authority over before the
\* token metadata is initialized.
createBackedMintInstructions_AuthorityFirst(feePayer, authority, mint, pre) ==
    LET created == getCreateMintInstructions(feePayer, mint)
    IN  <<created[1]>>
        \o FlatMapPreInitialize(Len(ExtensionsList), pre)
        \o <<created[2],
              Instruction("SetAuthority", "", feePayer, "MintTokens",
                          "MintTokens", authority),
              Instruction("InitializeTokenMetadata", "TokenMetadata", feePayer,
                          "MintTokens", "", NoAddress),
              Instruction("UpdateTransferHook", "TransferHook", feePayer,
                          "TransferHookProgramId", "", NoAddress),
              Instruction("SetAuthority", "", feePayer, "TransferHookProgramId",
                          "TransferHookProgramId", authority)>>
\* createBackedMintInstructions: the sequence it returns.  The transfer hook is
\* created with the fee payer as its authority, and the mint with the fee payer
\* as mint authority.
createBackedMintInstructions(feePayer, authority, mint, pre) ==
    LET created == getCreateMintInstructions(feePayer, mint)
        createMintAccountInstruction == created[1]
        initMintInstruction == created[2]
        initMetadataInstruction ==
            Instruction("InitializeTokenMetadata", "TokenMetadata", feePayer,
                        "MintTokens", "", NoAddress)
        changeMintAuthorityInstruction ==
            Instruction("SetAuthority", "", feePayer, "MintTokens",
                        "MintTokens", authority)
        updateTransferHookInstruction ==
            Instruction("UpdateTransferHook", "TransferHook", feePayer,
                        "TransferHookProgramId", "", NoAddress)
        updateTransferHookProgramIdAuthorityInstruction ==
            Instruction("SetAuthority", "", feePayer, "TransferHookProgramId",
                        "TransferHookProgramId", authority)
        preInitializeInstructions ==
            FlatMapPreInitialize(Len(ExtensionsList), pre)
    IN  <<createMintAccountInstruction>>
        \o preInitializeInstructions
        \o <<initMintInstruction,
              initMetadataInstruction,
              changeMintAuthorityInstruction,
              updateTransferHookInstruction,
              updateTransferHookProgramIdAuthorityInstruction>>

\* ------------------------------------------- getUpdateAuthorityInstructions
\* const AuthorityType of getSetAuthorityInstruction.
AuthorityType ==
    [MintTokens |-> 0, FreezeAccount |-> 1, AccountOwner |-> 2,
     CloseAccount |-> 3, TransferFeeConfig |-> 4, WithheldWithdraw |-> 5,
     CloseMint |-> 6, InterestRate |-> 7, PermanentDelegate |-> 8,
     ConfidentialTransferMint |-> 9, TransferHookProgramId |-> 10,
     ConfidentialTransferFeeConfig |-> 11, MetadataPointer |-> 12,
     GroupPointer |-> 13, GroupMemberPointer |-> 14, ScaledUiAmount |-> 15,
     Pause |-> 16]
\* AuthorityTypeLookup in a table that ends with GroupMemberPointer.
AuthorityTypeLookup_OldTable(key) ==
    IF key \in DOMAIN AuthorityType /\ AuthorityType[key] <= 14
    THEN [isNaN |-> FALSE, code |-> AuthorityType[key]]
    ELSE [isNaN |-> TRUE, code |-> 0]
\* AuthorityType[key] and what isNaN says of it: a key of the table yields its
\* code; for any other string the object yields undefined or a property it
\* inherits, neither of which is a number.
AuthorityTypeLookup(key) ==
    IF key \in DOMAIN AuthorityType
    THEN [isNaN |-> FALSE, code |-> AuthorityType[key]]
    ELSE [isNaN |-> TRUE, code |-> 0]

\* addressCodec.encode(address): the 32 bytes of the address (the model gives
\* every byte the address's number); the codec throws for a string that is no
\* address.
AddressEncode(address) == [i \in 1..AddressLen |-> address]
NotAnAddress == Throw(NewError(<<"Expected base58-encoded address">>))
AccountMeta(address, role) == [address |-> address, role |-> role]
TOKEN_2022_PROGRAM_ADDRESS == "TokenzQdBNbLqP5VEhdkAS6EPFLC1PHnBqCXEpPxuEb"

\* getSetAuthorityInstruction of src/token/setAuthority.ts.
getSetAuthorityInstruction(mint, authority, newAuthority, authorityType) ==
    LET looked == AuthorityTypeLookup(authorityType)
    IN  IF looked.isNaN
        THEN Throw(NewError(<<"Invalid authority type: ", authorityType>>))
        ELSE IF ~IsAddress(newAuthority)
             THEN NotAnAddress
             ELSE Return([accounts |->
                              <<AccountMeta(mint, "WRITABLE"),
                                AccountMeta(authority, "READONLY_SIGNER")>>,
                          programAddress |-> TOKEN_2022_PROGRAM_ADDRESS,
                          data |-> <<SetAuthorityDiscriminator, looked.code,
                                     SomeOption>>
                                   \o AddressEncode(newAuthority)])

\* getUpdateTokenMetadataUpdateAuthorityInstruction is the SDK's: of its data
\* the model keeps the bytes of the new update authority.
getUpdateTokenMetadataUpdateAuthorityInstruction(metadata, updateAuthority, newUpdateAuthority) ==
    IF ~IsAddress(newUpdateAuthority)
    THEN NotAnAddress
    ELSE Return([accounts |->
                     <<AccountMeta(metadata, "WRITABLE"),
                       AccountMeta(updateAuthority, "READONLY_SIGNER")>>,
                 programAddress |-> TOKEN_2022_PROGRAM_ADDRESS,
                 data |-> AddressEncode(newUpdateAuthority)])

\* The case labels of the switch.
SwitchRoles ==
    {"MintTokens", "FreezeAccount", "ConfidentialTransferMint",
     "MetadataPointer", "PermanentDelegate", "ScaledUiAmount",
     "TransferHookProgramId"}
\* getUpdateAuthorityInstructions: the instructions it returns, or the error it
\* throws (its own, or the one thrown by the builder it calls).
getUpdateAuthorityInstructions(mint, role, currentAuthority, newAuthority) ==
    IF role = "Metadata"
    THEN LET built == getUpdateTokenMetadataUpdateAuthorityInstruction(
                          mint, currentAuthority, newAuthority)
         IN  IF built.tag = "throw" THEN built ELSE Return(<<built.value>>)
    ELSE IF role \in SwitchRoles
         THEN LET built == getSetAuthorityInstruction(mint, currentAuthority,
                                                      newAuthority, role)
              IN  IF built.tag = "throw" THEN built
                  ELSE Return(<<built.value>>)
         ELSE Throw(NewError(<<"Unsupported authority role: ", role>>))

\* ------------------------------------------------------------ environment
\* The callers' arguments and the service's answers.  An answer is either no
\* response, or a response with a status and a body of the shape the declared
\* response type admits (TransactionResponse: any state, signatures optional).
Tasks == 0..((IF MaxTx > NCallers THEN MaxTx ELSE NCallers) - 1)
Callers == 0..(NCallers - 1)

\* The batches handed to the signer: up to MaxTx transactions.  The bytes of a
\* transaction are opaque to the program, which never compares or inspects them;
\* each position holds bytes of its own.
Tx(i) == "tx" \o ToString(i)
TxSeqs == {[i \in 1..n |-> Tx(i - 1)] : n \in 0..MaxTx}
\* The idempotenceId option: absent, the empty string, a key.
IdempotenceIds == {UNDEF, "", "base"}
VaultId == "vault-1"
\* process.env.FORDEFI_API_KEY, process.env.FORDEFI_API_SECRET
ApiKey == "api-key"
ApiSecret == "api-secret"
Chain == "solana_mainnet"
Options(idempotenceId) ==
    [note |-> UNDEF, idempotenceId |-> idempotenceId, signMode |-> UNDEF,
     pushMode |-> UNDEF, timeout |-> 0]

\* enum TransactionState
TransientStates == {"created", "waiting_for_approval", "waiting_for_signature",
                    "ready_for_push", "pushed"}
TerminalStates == {"completed", "failed", "aborted"}
TransactionState == TransientStates \cup TerminalStates

\* TransactionResponse: the state and the optional signatures array.
SigA == [id |-> "sigA", length |-> SigLen]
SigB == [id |-> "sigB", length |-> SigLen]
SigShort == [id |-> "sigS", length |-> SigLen - 1]
SigLong == [id |-> "sigL", length |-> SigLen + 1]
Job(state, present, list) ==
    [state |-> state, signatures |-> [present |-> present, list |-> list]]
\* The jobs a batch member is answered with: every shape of the signatures
\* array, and one job the service has not finished.
MemberJobs ==
    {Job("completed", TRUE, l) :
        l \in {<<>>, <<SigA>>, <<SigB>>, <<SigShort>>, <<SigLong>>,
               <<SigA, SigB>>, <<SigShort, SigA>>}}
    \cup {Job("completed", FALSE, <<>>), Job("pushed", TRUE, <<SigA>>)}
\* The jobs a direct caller is answered with: every state of the enum.
DirectJobs == {Job(st, TRUE, <<SigA>>) : st \in TransactionState}

ErrorBody == JObj(<< <<"error", JStr("invalid vault")>> >>)
Response(status, data) == Reply("response", status, data # JUndef, data, "")
NoResponse == Reply("none", 0, FALSE, JUndef, "connect ECONNREFUSED")
FailureReplies ==
    {Response(st, ErrorBody) : st \in {199, 300, 400}}
    \cup {Response(400, JUndef), NoResponse}

Tokens == {"tokA", "tokB"}
AuthReplies ==
    {Reply("response", 200, TRUE, [accessToken |-> tk], "") :
        tk \in Tokens \cup {UNDEF}}
    \cup {Reply("response", 200, FALSE, JUndef, "")}
    \cup {Reply("response", 401, TRUE, d,
                "Request failed with status code 401") :
              d \in {ErrorBody, [accessToken |-> "tokA"]}}
    \cup {NoResponse}

OkData(op, index) ==
    CASE op = "createAndWaitTransaction" ->
           IF index >= 0 THEN MemberJobs ELSE DirectJobs
      [] op = "getWalletAddress" -> {[address |-> "addr-1"]}
      [] op = "getTransactionStatus" -> {[status |-> "completed"]}
      [] op = "signTransaction" -> {[signedTransaction |-> SigA]}
MainReplies(op, index) ==
    {Reply("response", 200, TRUE, d, "") : d \in OkData(op, index)}
    \cup {Reply("response", 299, TRUE, CHOOSE d \in OkData(op, index) : TRUE,
                "")}
    \cup FailureReplies

\* ------------------------------------------------------------------ state
VARIABLES
    accessToken,  \* FordefiClient.accessToken of the client in use
    task,         \* per caller: where its call of a public operation stands
    all,          \* the Promise.all of the batch call
    input,        \* the arguments of the batch call
    authPosts,    \* POST /auth requests issued so far
    cacheHits,    \* token values authenticate() has returned from the cache
    calls,        \* calls of public operations made by direct callers
    delivered,    \* what the direct call that ended last handed its caller,
                  \* and the HTTP calls request() made for it (kept until
                  \* the next call is made)
    now,          \* Date.now()
    signing,      \* two runs of createSignature: their inputs and results
    batches,      \* calls of signAndSendTransactions made so far
    mintInstructions,  \* what createBackedMintInstructions returned
    authorityUpdate    \* a call of getUpdateAuthorityInstructions: its
                       \* arguments and its outcome
vars == <<accessToken, task, all, input, authPosts, cacheHits, calls,
          delivered, now, signing, batches, mintInstructions, authorityUpdate>>

NoRequest == [method |-> "", path |-> "", body |-> <<>>, token |-> NULL,
              sent |-> FALSE]
\* http: the HTTP call the task waits for, or made last; sends: the HTTP calls
\* request() has made for it.
IdleTask == [pc |-> "idle", op |-> "", index |-> -1, req |-> NoRequest,
             authReply |-> NoReply, reply |-> NoReply, opOut |-> Pending,
             out |-> Pending, http |-> NoHttpCall, sends |-> 0]
NothingDelivered ==
    [op |-> "", authReply |-> NoReply, reply |-> NoReply, out |-> Pending,
     sends |-> 0]
NoUpdate == [mint |-> NoAddress, role |-> "", currentAuthority |-> NoAddress,
             newAuthority |-> NoAddress, out |-> Pending]
NoRun == [apiSecret |-> "", timestamp |-> 0, body |-> <<>>,
          signature |-> NoHmac]

Init ==
    /\ accessToken = NULL
    /\ task = [p \in Tasks |-> IdleTask]
    /\ all = [status |-> "idle", values |-> <<>>, remaining |-> 0,
              error |-> NoError, by |-> -1]
    /\ input = [transactions |-> <<>>, idempotenceId |-> UNDEF]
    /\ authPosts = 0
    /\ cacheHits = {}
    /\ calls = 0
    /\ delivered = NothingDelivered
    /\ now = 1
    /\ signing = <<NoRun, NoRun>>
    /\ batches = 0
    /\ mintInstructions = <<>>
    /\ authorityUpdate = NoUpdate

\* ---------------------------------------------------------------- actions
\* body ? JSON.stringify(body) : "" (the empty string has no tokens).
RequestBody(body) == IF body.t = "undef" THEN <<>> ELSE JSONstringify(body)

\* The request a public operation hands to request().
OperationRequest(op, body) ==
    CASE op = "createAndWaitTransaction" ->
           [method |-> "POST", path |-> "/v1/transactions/create-and-wait",
            body |-> RequestBody(body), token |-> NULL, sent |-> FALSE]
      [] op = "getWalletAddress" ->
           [method |-> "GET", path |-> "/v1/wallets/solana",
            body |-> RequestBody(body), token |-> NULL, sent |-> FALSE]
      [] op = "getTransactionStatus" ->
           [method |-> "GET", path |-> "/v1/transactions/tx-1",
            body |-> RequestBody(body), token |-> NULL, sent |-> FALSE]
      [] op = "signTransaction" ->
           [method |-> "POST", path |-> "/v1/transactions/sign",
            body |-> RequestBody(body), token |-> NULL, sent |-> FALSE]

\* request() sending its call without waiting for authenticate().
AuthenticateStart_NotAwaited(cached) == "http"
\* authenticate() up to its first suspension, given the cached token `cached`:
\* with a token cached it returns it and request() sends its call; with none it
\* posts to /auth and waits.
AuthenticateStart(cached) == IF Truthy(cached) THEN "http" ELSE "auth"

\* A public operation called with `body`, run up to the HTTP call it waits for.
StartCall(op, index, body, cached, clock) ==
    LET pc == AuthenticateStart(cached)
        req == OperationRequest(op, body)
    IN  [IdleTask EXCEPT
            !.pc = pc, !.op = op, !.index = index,
            !.req = IF pc = "http"
                    THEN [req EXCEPT !.token = cached, !.sent = TRUE]
                    ELSE req,
            !.http = IF pc = "http"
                     THEN RequestCall(req.method, req.path, req.body, cached,
                                      ApiSecret, clock)
                     ELSE AuthenticateCall(ApiKey, ApiSecret, clock),
            !.sends = IF pc = "http" THEN 1 ELSE 0]

\* MemberSubmission of the first transaction, whatever the index.
MemberSubmission_FirstTransaction(transactions, index, idempotenceId) ==
    CreateAndWaitBody(VaultId, transactions[1], Chain,
                      Options(MemberIdempotenceId(idempotenceId, index)))
\* What the map callback hands createAndWaitTransaction for the transaction at
\* `index`: its own bytes, and the options with its idempotence id.
MemberSubmission(transactions, index, idempotenceId) ==
    CreateAndWaitBody(VaultId, transactions[index + 1], Chain,
                      Options(MemberIdempotenceId(idempotenceId, index)))

\* A batch call working on the client the signer was built with.
ClientOfCall_Closure(cached) == cached
\* this.accessToken of the client a batch call works on, given `cached`, that
\* of the client of the call before: the client is constructed in the call, and
\* a new client holds no token.
ClientOfCall(cached) == NULL

\* The body of signAndSendTransactions(transactions) of a signer built with the
\* option idempotenceId: a new client, then one createAndWaitTransaction per
\* transaction, each run up to its first network call, then Promise.all.  The
\* members of the call before are no longer looked at.
BatchCall(transactions, idempotenceId) ==
    LET n == Len(transactions)
        fresh == ClientOfCall(accessToken)
        started == [i \in 0..(n - 1) |->
                      StartCall("createAndWaitTransaction", i,
                                MemberSubmission(transactions, i,
                                                 idempotenceId),
                                fresh, now)]
    IN  /\ accessToken' = fresh
        /\ task' = [p \in Tasks |->
                        IF p < n THEN started[p]
                        ELSE IF task[p].index >= 0 THEN IdleTask ELSE task[p]]
        /\ authPosts' = authPosts
               + Cardinality({i \in 0..(n - 1) : started[i].pc = "auth"})
        /\ all' = PromiseAllStart(n)
        /\ input' = [transactions |-> transactions,
                     idempotenceId |-> idempotenceId]
        /\ batches' = batches + 1
        /\ UNCHANGED <<cacheHits, calls, delivered, now, signing,
                       mintInstructions, authorityUpdate>>

\* The first call of signAndSendTransactions on a signer.
SignAndSendTransactions(transactions, idempotenceId) ==
    /\ all.status = "idle"
    /\ BatchCall(transactions, idempotenceId)

\* A later call of signAndSendTransactions on the same signer, made once the
\* call before has settled and its members have ended.
SignAndSendTransactionsAgain(transactions, idempotenceId) ==
    /\ batches < MaxBatches
    /\ all.status \in {"fulfilled", "rejected"}
    /\ \A p \in Tasks : task[p].pc \in {"idle", "done"}
    /\ BatchCall(transactions, idempotenceId)

\* A direct caller calls a public operation of the client (from here on the
\* outcome of the call before is no longer looked at).
Call(p, op, body) ==
    /\ calls < MaxCalls
    /\ task[p].pc = "idle"
    /\ task' = [task EXCEPT ![p] = StartCall(op, -1, body, accessToken, now)]
    /\ authPosts' = authPosts + (IF task'[p].pc = "auth" THEN 1 ELSE 0)
    /\ cacheHits' = IF task'[p].pc = "http" THEN cacheHits \cup {accessToken}
                    ELSE cacheHits
    /\ calls' = calls + 1
    /\ delivered' = NothingDelivered
    /\ UNCHANGED <<accessToken, all, input, now, signing, batches,
                   mintInstructions, authorityUpdate>>

CallCreateAndWaitTransaction(p) ==
    \E tx \in {Tx(0)}, id \in {"key"} :
        Call(p, "createAndWaitTransaction",
             CreateAndWaitBody(VaultId, tx, Chain, Options(id)))
CallSignTransaction(p) ==
    Call(p, "signTransaction", SignTransactionBody(Tx(0)))
CallGetWalletAddress(p) == Call(p, "getWalletAddress", JUndef)
CallGetTransactionStatus(p) == Call(p, "getTransactionStatus", JUndef)

\* Finish that, when a batch member fails, cancels the remote jobs of its
\* siblings and ends their calls.
Finish_CancelSiblings(p, opOut, t) ==
    LET index == task[p].index
        out == IF opOut.tag = "return"
               THEN MemberValidate(index, opOut.value) ELSE opOut
        cancel(q) ==
            [task[q] EXCEPT
                !.pc = "done",
                !.out = Throw(NewError(<<"Cancelled">>)),
                !.http = HttpCall("POST", "/v1/transactions/cancel", {}, "",
                                  Unsigned, FALSE, <<>>)]
    IN  IF index >= 0
        THEN /\ task' = [q \in Tasks |->
                            IF q = p
                            THEN [t EXCEPT !.pc = "done", !.opOut = opOut,
                                           !.out = out]
                            ELSE IF out.tag = "throw" /\ task[q].index >= 0
                                    /\ task[q].pc \in {"auth", "http"}
                                 THEN cancel(q) ELSE task[q]]
             /\ all' = PromiseAllSettle(all, index, out)
             /\ delivered' = delivered
        ELSE /\ task' = [task EXCEPT ![p] = IdleTask]
             /\ all' = all
             /\ delivered' = [op |-> t.op, authReply |-> t.authReply,
                              reply |-> t.reply, out |-> opOut,
                              sends |-> t.sends]

\* The call of task p ends with opOut, the outcome of its public operation.  A
\* batch member goes on to validate the response and settles its promise; a
\* direct caller is handed the outcome and is free to call again.
Finish(p, opOut, t) ==
    LET index == task[p].index
    IN  IF index >= 0
        THEN LET out == IF opOut.tag = "return"
                        THEN MemberValidate(index, opOut.value) ELSE opOut
             IN  /\ task' = [task EXCEPT ![p] = [t EXCEPT !.pc = "done",
                                                          !.opOut = opOut,
                                                          !.out = out]]
                 /\ all' = PromiseAllSettle(all, index, out)
                 /\ delivered' = delivered
        ELSE /\ task' = [task EXCEPT ![p] = IdleTask]
             /\ all' = all
             /\ delivered' = [op |-> t.op, authReply |-> t.authReply,
                              reply |-> t.reply, out |-> opOut,
                              sends |-> t.sends]

\* POST /auth of task p ends with one of the replies the service can give.  With
\* a token, request() goes on to send its GET or POST; without, the call ends
\* (the task keeps the reply that made authenticate() fail).
AuthRespond(p) ==
    /\ task[p].pc = "auth"
    /\ \E reply \in AuthReplies :
          LET a == AuthenticateResume(reply, accessToken)
          IN  /\ accessToken' = a.accessToken
              /\ IF a.out.tag = "return"
                 THEN /\ task' = [task EXCEPT
                                     ![p].pc = "http",
                                     ![p].req.token = a.out.value,
                                     ![p].req.sent = TRUE,
                                     ![p].http =
                                         RequestCall(task[p].req.method,
                                             task[p].req.path,
                                             task[p].req.body, a.out.value,
                                             ApiSecret, now),
                                     ![p].sends = 1]
                      /\ UNCHANGED <<all, delivered>>
                 ELSE Finish(p, OperationResume(task[p].op, a.out),
                             [task[p] EXCEPT !.authReply = reply])
    /\ UNCHANGED <<input, authPosts, cacheHits, calls, now, signing,
                   batches, mintInstructions, authorityUpdate>>

\* The GET or POST of task p ends with one of the replies the service can give.
Respond(p) ==
    /\ task[p].pc = "http"
    /\ \E reply \in MainReplies(task[p].op, task[p].index) :
          IF AwaitsAgain(task[p].op, reply)
          THEN /\ task' = [task EXCEPT ![p].sends = @ + 1]
               /\ UNCHANGED <<all, delivered>>
          ELSE Finish(p, OperationResume(task[p].op, RequestResume(reply)),
                      [task[p] EXCEPT !.reply = reply])
    /\ UNCHANGED <<accessToken, input, authPosts, cacheHits, calls, now,
                   signing, batches, mintInstructions, authorityUpdate>>

\* Time passes.
Tick ==
    /\ now < MaxClock
    /\ now' = now + 1
    /\ UNCHANGED <<accessToken, task, all, input, authPosts, cacheHits, calls,
                   delivered, signing, batches, mintInstructions,
                   authorityUpdate>>

\* createSignature is run twice, on inputs of the caller's choice: a secret, a
\* reading of the clock, a body (a sequence of bytes).
Secrets == {ApiSecret, "other-secret"}
Timestamps == 1..MaxClock \cup {12}
Bytes == {"2", "a"}
Bodies == UNION {[1..n -> Bytes] : n \in 0..MaxBodyLen}
SigningRun(apiSecret, timestamp, body) ==
    [apiSecret |-> apiSecret, timestamp |-> timestamp, body |-> body,
     signature |-> createSignature(apiSecret, timestamp, Text(body)).signature]
Sign(s1, t1, b1, s2, t2, b2) ==
    /\ signing = <<NoRun, NoRun>>
    /\ signing' = <<SigningRun(s1, t1, b1), SigningRun(s2, t2, b2)>>
    /\ UNCHANGED <<accessToken, task, all, input, authPosts, cacheHits, calls,
                   delivered, now, batches, mintInstructions,
                   authorityUpdate>>

\* createBackedMintInstructions is called for the fee payer and a target
\* authority, which may be the fee payer; the mint's address is generated in
\* the call.
Addresses == 1..NAddresses
GeneratedMint == NAddresses + 1
FeePayerAddress == NAddresses + 2
PreInitializeCounts == [1..Len(ExtensionsList) -> 0..MaxPreInit]
CreateBackedMintInstructions(feePayer, authority, pre) ==
    /\ mintInstructions = <<>>
    /\ mintInstructions' =
           createBackedMintInstructions(feePayer, authority, GeneratedMint, pre)
    /\ UNCHANGED <<accessToken, task, all, input, authPosts, cacheHits, calls,
                   delivered, now, signing, batches, authorityUpdate>>

\* getUpdateAuthorityInstructions is called with a role string: a role of the
\* function, another key of the authority-type table, a string that is neither.
Roles ==
    SwitchRoles
    \cup {"Metadata", "Pause", "AccountOwner", "CloseMint", "GroupPointer",
          "mintTokens", "constructor", ""}
UpdateAuthority(mint, role, currentAuthority, newAuthority) ==
    /\ authorityUpdate = NoUpdate
    /\ authorityUpdate' =
           [mint |-> mint, role |-> role,
            currentAuthority |-> currentAuthority,
            newAuthority |-> newAuthority,
            out |-> getUpdateAuthorityInstructions(mint, role,
                                                   currentAuthority,
                                                   newAuthority)]
    /\ UNCHANGED <<accessToken, task, all, input, authPosts, cacheHits, calls,
                   delivered, now, signing, batches, mintInstructions>>

\* One batch call of the signer.
Next ==
    \/ \E txs \in TxSeqs, id \in IdempotenceIds :
          SignAndSendTransactions(txs, id)
    \/ \E p \in Tasks : AuthRespond(p)
    \/ \E p \in Tasks : Respond(p)
Spec == Init /\ [][Next]_vars

\* One client used directly by concurrent callers.
ClientNext ==
    \/ \E p \in Callers : CallCreateAndWaitTransaction(p)
    \/ \E p \in Callers : CallGetWalletAddress(p)
    \/ \E p \in Callers : CallGetTransactionStatus(p)
    \/ \E p \in Tasks : AuthRespond(p)
    \/ \E p \in Tasks : Respond(p)
ClientSpec == Init /\ [][ClientNext]_vars

\* One client used by one caller while time passes.
ClockNext ==
    \/ CallCreateAndWaitTransaction(0)
    \/ CallSignTransaction(0)
    \/ CallGetWalletAddress(0)
    \/ CallGetTransactionStatus(0)
    \/ AuthRespond(0)
    \/ Respond(0)
    \/ Tick
ClockSpec == Init /\ [][ClockNext]_vars

\* One signer called again and again, each call made once the call before has
\* ended, with batches of up to MaxBatchTx transactions.
BatchSeqs == {txs \in TxSeqs : Len(txs) <= MaxBatchTx}
SignerNext ==
    \/ \E txs \in BatchSeqs, id \in IdempotenceIds :
          SignAndSendTransactions(txs, id)
    \/ \E txs \in BatchSeqs, id \in IdempotenceIds :
          SignAndSendTransactionsAgain(txs, id)
    \/ \E p \in Tasks : AuthRespond(p)
    \/ \E p \in Tasks : Respond(p)
SignerSpec == Init /\ [][SignerNext]_vars

\* One signer called again and again, every HTTP request of which ends: a
\* request that waits for its response is answered, or fails in transport, after
\* a finite time, and the event loop then runs the continuation that waits for
\* it.  Nothing obliges the signer's user to call again.
FairSpec ==
    /\ SignerSpec
    /\ \A p \in Tasks : WF_vars(AuthRespond(p)) /\ WF_vars(Respond(p))

\* The signature engine on its own.
SignNext ==
    \E s1, s2 \in Secrets, t1, t2 \in Timestamps, b1, b2 \in Bodies :
        Sign(s1, t1, b1, s2, t2, b2)
SignSpec == Init /\ [][SignNext]_vars

\* The builder of the mint's instructions on its own.
MintNext ==
    \E authority \in Addresses \cup {FeePayerAddress},
       pre \in PreInitializeCounts :
        CreateBackedMintInstructions(FeePayerAddress, authority, pre)
MintSpec == Init /\ [][MintNext]_vars

\* The builder of the authority updates on its own.
AuthorityNext ==
    \E mint, currentAuthority \in Addresses, role \in Roles,
       newAuthority \in Addresses \cup {NoAddress} :
        UpdateAuthority(mint, role, currentAuthority, newAuthority)
AuthoritySpec == Init /\ [][AuthorityNext]_vars

\* ====================================================================
\* Properties
\* ====================================================================
Members == {i \in Tasks : all.status # "idle" /\ i < Len(input.transactions)}
Done(p) == task[p].pc = "done"
Is2xx(reply) ==
    reply.kind = "response" /\ reply.status >= 200 /\ reply.status <= 299
IsNon2xx(reply) == reply.kind = "response" /\ ~Is2xx(reply)
\* The token that follows `"key" :` in a JSON text, or undefined.
FieldOf(text, key) ==
    IF \E k \in 1..(Len(text) - 2) : text[k] = Quote(key) /\ text[k + 1] = ":"
    THEN text[(CHOOSE k \in 1..(Len(text) - 2) :
                   text[k] = Quote(key) /\ text[k + 1] = ":") + 2]
    ELSE UNDEF

\* C1: while no authentication attempt of the session has resolved yet, at most
\* one POST /auth has been issued, however many callers wait for a token.
C1_SingleAuthInFlight ==
    (\A p \in Tasks : task[p].pc \in {"idle", "auth"}) => authPosts <= 1

\* C2: once authenticate() has returned a token from the cache, every later call
\* made while a token is cached returns that same value, and issues no POST /auth.
C2_CachedTokenReturned ==
    [][\A p \in Callers :
          (Truthy(accessToken) /\ task[p].pc = "idle" /\ task'[p].pc # "idle")
          => /\ authPosts' = authPosts
             /\ task'[p].req.sent /\ task'[p].req.token = accessToken
             /\ \A tk \in cacheHits : tk = accessToken]_vars

\* C3 (as amended): the submission of the transaction at index i carries the
\* idempotence id "b-i" when the base key b is a non-empty string, and none when
\* the base key is absent or the empty string; the ids of one batch differ.
C3_IdempotenceIds ==
    \A i \in Members :
        task[i].req.sent =>
            LET id == FieldOf(task[i].req.body, "idempotence_id")
                b == input.idempotenceId
            IN  /\ b \in {UNDEF, ""} => id = UNDEF
                /\ b \notin {UNDEF, ""}
                      => /\ id = Quote(b \o "-" \o ToString(i))
                         /\ \A j \in Members \ {i} :
                               task[j].req.sent =>
                                  FieldOf(task[j].req.body, "idempotence_id")
                                      # id
C3_Witness ==
    /\ input.idempotenceId = "base"
    /\ Len(input.transactions) = 2
    /\ \A i \in Members : task[i].req.sent
    /\ FieldOf(task[1].req.body, "idempotence_id") = "\"base-1\""
\* C3 as stated: whenever a base key b is supplied, member i carries "b-i".
C3_AsStated ==
    \A i \in Members :
        task[i].req.sent =>
            LET id == FieldOf(task[i].req.body, "idempotence_id")
                b == input.idempotenceId
            IN  IF b = UNDEF THEN id = UNDEF
                ELSE id = Quote(b \o "-" \o ToString(i))

\* C4: a fulfilled batch call returns as many signatures as it was given
\* transactions, the i-th being the signature the service returned for the
\* i-th transaction's submission.
C4_ResultsInInputOrder ==
    all.status = "fulfilled" =>
        /\ Len(BatchResult(all)) = Len(input.transactions)
        /\ \A i \in Members :
              LET sig == task[i].reply.data.signatures.list[1]
              IN  BatchResult(all)[i + 1] = [id |-> sig.id, length |-> sig.length]
C4_Witness ==
    /\ all.status = "fulfilled"
    /\ Len(input.transactions) = 2
    /\ BatchResult(all)[1].id = "sigB" /\ BatchResult(all)[2].id = "sigA"

\* C5: a member whose response does not hold exactly one signature fails
\* validation, and the batch call fails.
SignatureCount(reply) ==
    IF reply.data.signatures.present THEN Len(reply.data.signatures.list) ELSE 0
C5_ExactlyOneSignature ==
    \A i \in Members :
        (Done(i) /\ Is2xx(task[i].reply) /\ SignatureCount(task[i].reply) # 1)
        => /\ task[i].out.tag = "throw"
           /\ ErrorKind(task[i].out.error) = "ValidationError"
           /\ all.status = "rejected"

\* C6 (as amended): a member whose response has no signature, or a first
\* signature that is not 64 bytes long, fails with a validation error and the
\* batch call fails; the batch call's error is the error of the member that
\* failed first, so it is that validation error whenever no other member failed.
BadSignature(reply) ==
    /\ Is2xx(reply)
    /\ \/ SignatureCount(reply) = 0
       \/ reply.data.signatures.list[1].length # 64
C6_BadSignatureFailsBatch ==
    \A i \in Members :
        (Done(i) /\ BadSignature(task[i].reply))
        => /\ task[i].out.tag = "throw"
           /\ ErrorKind(task[i].out.error) = "ValidationError"
           /\ all.status = "rejected"
           /\ all.by = i => all.error = task[i].out.error
           /\ (\A j \in Members \ {i} : task[j].out.tag # "throw")
                 => ErrorKind(all.error) = "ValidationError"
C6_Witness ==
    /\ Len(input.transactions) = 2
    /\ Done(0) /\ task[0].reply.data = Job("completed", TRUE, <<SigShort>>)
    /\ Done(1) /\ task[1].out.tag = "return"
    /\ task[1].reply.data.state = "completed"
    /\ all.status = "rejected" /\ ErrorKind(all.error) = "ValidationError"
\* C6 as stated: the batch call then fails with a validation error.  Stated on
\* the executions in which every member obtained its token, so that the failure
\* of a sibling is a failure of its own submission.
C6_AsStated ==
    (\A j \in Members : task[j].req.sent) =>
        \A i \in Members :
            (Done(i) /\ BadSignature(task[i].reply))
            => /\ all.status = "rejected"
               /\ ErrorKind(all.error) = "ValidationError"

\* C7: the batch call returns signatures only if every member was answered with
\* a valid signature, and then every element is 64 bytes long; as soon as one
\* member has failed the call has failed and hands the caller no signature.
C7_AllOrNothing ==
    /\ all.status = "fulfilled" =>
          /\ Len(BatchResult(all)) = Len(input.transactions)
          /\ \A i \in Members :
                /\ Done(i) /\ task[i].out.tag = "return"
                /\ Is2xx(task[i].reply) /\ ~BadSignature(task[i].reply)
                /\ BatchResult(all)[i + 1].length = 64
    /\ (\E i \in Members : task[i].out.tag = "throw") =>
          all.status = "rejected" /\ BatchResult(all) = <<>>
C7_Witness ==
    /\ all.status = "rejected" /\ BatchResult(all) = <<>>
    /\ \E i, j \in Members :
          /\ task[i].out.tag = "throw"
          /\ task[j].out.tag = "return" /\ task[j].out.value.length = 64

\* C8 (as amended): the job createAndWaitTransaction returns is the body of a
\* 2xx response to its POST, unchanged; so its state is terminal exactly when
\* the state the service answered with is.
ReturnedJob ==
    delivered.op = "createAndWaitTransaction" /\ delivered.out.tag = "return"
C9_HttpErrorKind ==
    delivered.reply.kind = "response" =>
        IF Is2xx(delivered.reply)
        THEN delivered.out.tag = "return"
        ELSE /\ delivered.out.tag = "throw"
             /\ ErrorKind(delivered.out.error) = "HttpError"
             /\ IsInfix(<<ToString(delivered.reply.status)>>,
                        delivered.out.error.message)

\* C10 (as amended): for a non-2xx response, with status s and JSON body b, to
\* the GET or POST that request() sends for a public operation, the message of
\* the error the operation's caller gets contains the digits of s and the JSON
\* text of b.
ErrorBodyText == <<"{", "\"error\"", ":", "\"invalid vault\"", "}">>
MessageTells(e, reply) ==
    /\ IsInfix(<<ToString(reply.status)>>, e.message)
    /\ reply.data = ErrorBody => IsInfix(ErrorBodyText, e.message)
HttpStatuses == 100..599
HoldsToken(reply) ==
    /\ reply.kind = "response" /\ reply.hasData
    /\ "accessToken" \in DOMAIN reply.data
    /\ Truthy(reply.data.accessToken)
AuthenticationFailed == delivered.authReply # NoReply
ErrorKinds ==
    {"AuthenticationError", "HttpError", "NetworkError", "ValidationError"}
RaisedFirst ==
    IF AuthenticationFailed THEN AuthenticateRaised(delivered.authReply)
    ELSE IF delivered.reply # NoReply THEN RequestRaised(delivered.reply)
    ELSE NoError
C13_KindUnchanged ==
    RaisedFirst # NoError =>
        /\ delivered.out.tag = "throw"
        /\ ErrorKind(RaisedFirst) \in ErrorKinds
              => ErrorKind(delivered.out.error) = ErrorKind(RaisedFirst)

\* C14: for one call of createAndWaitTransaction, request() makes at most one
\* HTTP call, the POST to /v1/transactions/create-and-wait, whatever that call
\* ends with: a 2xx response (the job in a transient state included), a
\* response outside 2xx, no response.
C14_OnePostPerCall ==
    \A i \in Members :
        /\ task[i].sends <= 1
        /\ task[i].http.path \in {"/auth", "/v1/transactions/create-and-wait"}
        /\ task[i].sends = 1 =>
              /\ task[i].http.method = "POST"
              /\ task[i].http.path = "/v1/transactions/create-and-wait"
        /\ (Done(i) /\ task[i].reply # NoReply) => task[i].sends = 1
C14_Witness ==
    /\ Len(input.transactions) = 2
    /\ Done(0) /\ task[0].reply = NoResponse /\ task[0].sends = 1
    /\ Done(1) /\ Is2xx(task[1].reply)
    /\ task[1].reply.data.state \in TransientStates /\ task[1].sends = 1

\* C15: every POST request() sends has the headers Authorization (the bearer
\* token authenticate() returned), x-signature and x-timestamp; every GET it
\* sends has Authorization, neither x-signature nor x-timestamp, and no body.
C15_Headers ==
    \A p \in Tasks :
        task[p].pc = "http" =>
            LET h == task[p].http
            IN  /\ h.method \in {"GET", "POST"}
                /\ "Authorization" \in h.names
                /\ Truthy(task[p].req.token)
                /\ h.Authorization = "Bearer " \o task[p].req.token
                /\ h.method = "POST" =>
                      /\ {"x-signature", "x-timestamp"} \subseteq h.names
                      /\ h.xSignature # NoHmac /\ h.xTimestamp > 0
                /\ h.method = "GET" =>
                      /\ h.names \cap {"x-signature", "x-timestamp"} = {}
                      /\ h.xSignature = NoHmac
                      /\ ~h.hasBody /\ h.body = <<>>
C15_Witness ==
    /\ task[0].pc = "http" /\ task[0].http.method = "GET"
    /\ task[0].http.Authorization = "Bearer tokB"
    /\ calls = 2 /\ authPosts = 1

\* C16: of every signed request (POST /auth, the POSTs of request()) the
\* signature is the code of the timestamp sent in x-timestamp followed by the
\* body transmitted, and that timestamp is the clock's reading when it was made.
C16_SignedAsSent ==
    \A p \in Tasks :
        (task[p].pc \in {"auth", "http"} /\ task[p].http.method = "POST") =>
            LET h == task[p].http
            IN  /\ h.hasBody
                /\ h.xSignature =
                       HexDigest(Hmac("sha256", ApiSecret,
                                      ToString(h.xTimestamp) \o Text(h.body)))
                /\ h.xTimestamp >= 1 /\ h.xTimestamp <= now
C16_Witness ==
    /\ task[0].pc = "http" /\ task[0].http.method = "POST"
    /\ task[0].http.xTimestamp = 2 /\ now = 3
    /\ calls = 2 /\ authPosts = 2

\* C17: two runs of createSignature with the same secret, timestamp and body
\* give the same signature; with the same secret, two runs that differ in the
\* timestamp only, or in one byte of the body only, give different signatures.
OneByteApart(b1, b2) ==
    /\ Len(b1) = Len(b2)
    /\ Cardinality({k \in 1..Len(b1) : b1[k] # b2[k]}) = 1
Signed == signing # <<NoRun, NoRun>>
C18_NoCancellation ==
    [][\A i \in Members :
          /\ task'[i].http.path \in {"/auth", "/v1/transactions/create-and-wait"}
          /\ task'[i] # task[i] =>
                /\ task[i].pc \in {"auth", "http"}
                /\ \A j \in Members \ {i} : task'[j] = task[j]]_vars
C18_Witness ==
    /\ all.status = "rejected"
    /\ \E i, j \in Members :
          /\ all.by = i /\ ErrorKind(task[i].out.error) = "ValidationError"
          /\ Done(j) /\ j > i /\ Is2xx(task[j].reply)
          /\ task[j].reply.data.state = "completed"
          /\ task[j].sends = 1

\* C19: once a non-empty token is cached, the cached value never changes.
C19_TokenNeverReplaced ==
    [][Truthy(accessToken) => accessToken' = accessToken]_vars

\* C20: in a batch call in which every member obtained its token, every member
\* has made exactly one submission, N in all, each carrying the bytes of its own
\* transaction, whatever became of its siblings.
Submitted(i) ==
    task[i].sends = 1 /\ task[i].http.path = "/v1/transactions/create-and-wait"
C20_OneSubmissionEach ==
    /\ \A i \in Members :
          task[i].req.sent =>
              /\ Submitted(i)
              /\ FieldOf(task[i].http.body, "transaction")
                     = Quote(Base64Encode(input.transactions[i + 1]))
    /\ (\A i \in Members : task[i].req.sent) =>
          Cardinality({i \in Members : Submitted(i)}) = Len(input.transactions)
C20_Witness ==
    /\ Len(input.transactions) = 2
    /\ Done(0) /\ task[0].req.sent /\ task[0].out.tag = "throw"
    /\ Done(1) /\ Submitted(1) /\ task[1].out.tag = "return"
    /\ FieldOf(task[1].http.body, "transaction") = "\"base64(tx1)\""

\* C21: no GET or POST to an endpoint other than /auth is sent before an
\* authentication of the session has succeeded: a request that was sent carries
\* a token the auth endpoint issued, and a call whose authenticate() failed has
\* sent nothing and hands its caller the authentication failure, not a network
\* or HTTP error.
C21_AuthenticatedBeforeRequest ==
    /\ \A p \in Tasks :
          /\ task[p].req.sent =>
                /\ authPosts >= 1
                /\ task[p].req.token \in Tokens
                /\ task[p].http.path \notin {"", "/auth"}
                /\ task[p].http.Authorization = "Bearer " \o task[p].req.token
          /\ ~task[p].req.sent =>
                /\ task[p].sends = 0
                /\ task[p].http.path \in {"", "/auth"}
    /\ AuthenticationFailed =>
          /\ delivered.sends = 0
          /\ delivered.reply = NoReply
          /\ delivered.out.tag = "throw"
          /\ ErrorKind(delivered.out.error) = "AuthenticationError"
          /\ ErrorKind(delivered.out.error)
                 \notin {"NetworkError", "HttpError"}
    /\ (delivered.op # "" /\ ~AuthenticationFailed) => delivered.sends = 1
C21_Witness ==
    /\ delivered.authReply = NoResponse
    /\ delivered.sends = 0
    /\ ErrorKind(delivered.out.error) = "AuthenticationError"
    /\ \E p \in Callers : task[p].req.sent /\ task[p].req.token = "tokB"

\* C22: a failed authentication (no token in the response, a status outside
\* 2xx, no response) leaves the session without a usable cached token, so that
\* the next call of authenticate() issues a new POST /auth.
C22_FailedAuthLeavesNoToken ==
    [][\A p \in Tasks :
          (task[p].pc = "auth" /\ task'[p].pc \notin {"auth", "http"})
              => ~Truthy(accessToken')]_vars

\* C23: every call of signAndSendTransactions works on a client of its own: its
\* members start without a token, whatever token the call before obtained, and
\* a call with at least one transaction issues a POST /auth of its own.
C23_FreshClientPerBatch ==
    [][batches' # batches =>
          /\ ~Truthy(accessToken')
          /\ \A i \in Tasks :
                i < Len(input'.transactions) =>
                    /\ task'[i].pc = "auth"
                    /\ ~task'[i].req.sent
                    /\ ~Truthy(task'[i].req.token)
                    /\ task'[i].http.path = "/auth"
          /\ Len(input'.transactions) >= 1 => authPosts' > authPosts]_vars
C23_Witness ==
    /\ batches = 2
    /\ authPosts = 2
    /\ task[0].pc = "http" /\ task[0].req.token = "tokB"

C25_EmptyBatch ==
    [][(batches' # batches /\ Len(input'.transactions) = 0) =>
          /\ all'.status = "fulfilled"
          /\ BatchResult(all') = <<>>
          /\ authPosts' = authPosts
          /\ \A p \in Tasks :
                /\ task'[p].pc = "idle"
                /\ task'[p].sends = 0
                /\ task'[p].http = NoHttpCall]_vars
C25_Witness ==
    /\ batches = 2
    /\ Len(input.transactions) = 0
    /\ all.status = "fulfilled" /\ BatchResult(all) = <<>>
    /\ authPosts = 1

Positions(kind) ==
    {i \in 1..Len(mintInstructions) : mintInstructions[i].kind = kind}
C27_InstructionOrder ==
    mintInstructions # <<>> =>
        /\ mintInstructions[1].kind = "CreateAccount"
        /\ Positions("CreateAccount") = {1}
        /\ Cardinality(Positions("InitializeMint")) = 1
        /\ \A i \in Positions("PreInitialize"),
              j \in Positions("InitializeMint") : i < j
        /\ \A j \in Positions("SetAuthority") :
              /\ \A i \in 1..Len(mintInstructions) :
                    (mintInstructions[i].kind # "SetAuthority"
                        /\ mintInstructions[i].signsAs
                               = mintInstructions[j].authorityType
                        /\ mintInstructions[i].signer
                               = mintInstructions[j].signer)
                        => i < j
              /\ \E i \in 1..(j - 1) :
                    /\ mintInstructions[i].kind # "SetAuthority"
                    /\ mintInstructions[i].signsAs
                           = mintInstructions[j].authorityType
        /\ \A i \in Positions("InitializeTokenMetadata")
                    \cup Positions("UpdateTransferHook") :
              \E j \in Positions("SetAuthority") :
                  /\ i < j
                  /\ mintInstructions[j].authorityType
                         = mintInstructions[i].signsAs
C27_Witness ==
    /\ Len(mintInstructions) = 13
    /\ mintInstructions[2].extension = "MetadataPointer"
    /\ mintInstructions[3].extension = "PermanentDelegate"
    /\ mintInstructions[8].extension = "TransferHook"
    /\ mintInstructions[9].kind = "InitializeMint"
    /\ mintInstructions[10].kind = "InitializeTokenMetadata"
    /\ mintInstructions[11].kind = "SetAuthority"
    /\ mintInstructions[11].signer = FeePayerAddress
    /\ mintInstructions[11].newAuthority = 1
    /\ mintInstructions[12].kind = "UpdateTransferHook"

\* C28: for every role string getUpdateAuthorityInstructions returns exactly one
\* instruction or throws; it throws "Unsupported authority role" exactly for the
\* roles outside the accepted set; an accepted role it hands to
\* getSetAuthorityInstruction is a key of the authority-type table, so the call
\* never fails with "Invalid authority type", and the instruction returned has
\* 35 bytes of data with the role's code of the table in byte 1.
AcceptedRoles ==
    {"Metadata", "MintTokens", "FreezeAccount", "ConfidentialTransferMint",
     "MetadataPointer", "PermanentDelegate", "ScaledUiAmount",
     "TransferHookProgramId"}
Threw(message) ==
    /\ authorityUpdate.out.tag = "throw"
    /\ authorityUpdate.out.error.message[1] = message
C28_RolesAndCodes ==
    authorityUpdate # NoUpdate =>
        /\ authorityUpdate.out.tag \in {"return", "throw"}
        /\ authorityUpdate.out.tag = "return" =>
              Len(authorityUpdate.out.value) = 1
        /\ Threw("Unsupported authority role: ")
              <=> authorityUpdate.role \notin AcceptedRoles
        /\ ~Threw("Invalid authority type: ")
        /\ authorityUpdate.role \in AcceptedRoles \ {"Metadata"} =>
              /\ authorityUpdate.role \in DOMAIN AuthorityType
              /\ authorityUpdate.out.tag = "return" =>
                    LET data == authorityUpdate.out.value[1].data
                    IN  /\ Len(data) = 35
                        /\ data[2] = AuthorityType[authorityUpdate.role]
                        /\ data[1] = 6 /\ data[3] = 1
                        /\ \A i \in 4..35 :
                              data[i] = authorityUpdate.newAuthority
              /\ IsAddress(authorityUpdate.newAuthority) =>
                    authorityUpdate.out.tag = "return"
C28_Witness ==
    /\ authorityUpdate.role = "ScaledUiAmount"
    /\ authorityUpdate.out.tag = "return"
    /\ authorityUpdate.out.value[1].data[2] = 15

====
